---------------------------- MODULE Spec2Model ----------------------------
(***************************************************************************)
(* Model of the SDS question-answering backend (msds-backend):             *)
(*   app/loader_pdf.py  page cleaning, product-name extraction, section    *)
(*                      splitting, load_sds_documents (PDF pipeline)       *)
(*   app/loader.py      the plain-text loader                              *)
(*   main.py            query_sds and the product hints                    *)
(*   app/section_picker.py  choose_relevant_section                        *)
(*                                                                         *)
(* Text is a sequence of tokens.  A token is a TLA+ string standing for a  *)
(* run of characters that the regular expressions of the source treat as   *)
(* a unit: one whitespace character (" ", "\n", "\f"), one punctuation     *)
(* character (":"), or a word or phrase ("Section 7", "Product Name",      *)
(* "Acme").  Python string operations are modelled on token sequences.     *)
(***************************************************************************)
EXTENDS Integers, Sequences, FiniteSets, TLC

VARIABLES
    pc,            \* which operation has produced the current state
    pages,         \* List[str]: the page texts handed to the cleaning step
    threshold,     \* the ratio given to _find_repeated_lines, in tenths
    full_text,     \* str: the text handed to the splitter / the extractor
    documents,     \* List[Document] emitted for one file
    product_name,  \* result of extract_product_name
    files,         \* the directory: file name -> content
    returned,      \* outcomes of the load_sds_documents calls made so far
    vectorstore,   \* the Documents held by the vector store
    question,      \* req.question of the last query
    product_hint,  \* the product hint of the last query, after both passes
    search_filter, \* the product_name filter of its similarity_search
    candidates,    \* its candidates
    section,       \* the reply of choose_relevant_section
    response       \* the response of the last query_sds call

vars == <<pc, pages, threshold, full_text, documents, product_name, files,
          returned, vectorstore, question, product_hint, search_filter,
          candidates, section, response>>

\* Python's None, kept apart from every str (a token sequence).
None == <<"<None>">>

Min(S) == CHOOSE x \in S : \A y \in S : x <= y

Max(a, b) == IF a >= b THEN a ELSE b

Range(s) == {s[i] : i \in 1..Len(s)}

\* All sequences over S of length at most n.
SeqsUpTo(S, n) == UNION {[1..k -> S] : k \in 0..n}

(***************************************************************************)
(* Python str operations on token sequences                                *)
(***************************************************************************)

\* Characters matched by \s and removed by str.strip().
Whitespace == {" ", "\n", "\f"}

\* Characters at which str.splitlines() breaks.
LineBreaks == {"\n", "\f"}

IsSpace(c) == c \in Whitespace

RECURSIVE lstrip(_)
lstrip(s) == IF s # <<>> /\ IsSpace(Head(s)) THEN lstrip(Tail(s)) ELSE s

RECURSIVE rstrip(_)
rstrip(s) ==
    IF s # <<>> /\ IsSpace(s[Len(s)]) THEN rstrip(SubSeq(s, 1, Len(s) - 1)) ELSE s

strip(s) == rstrip(lstrip(s))

\* str.splitlines(): no trailing empty line, [] for the empty string.
RECURSIVE splitlines(_)
splitlines(s) ==
    IF s = <<>> THEN <<>>
    ELSE LET brk == {i \in 1..Len(s) : s[i] \in LineBreaks}
         IN  IF brk = {} THEN <<s>>
             ELSE <<SubSeq(s, 1, Min(brk) - 1)>>
                      \o splitlines(SubSeq(s, Min(brk) + 1, Len(s)))

\* sep.join(parts)
RECURSIVE join(_, _)
join(sep, parts) ==
    IF parts = <<>> THEN <<>>
    ELSE IF Len(parts) = 1 THEN parts[1]
    ELSE parts[1] \o sep \o join(sep, Tail(parts))

\* re.sub(r"\s+", " ", s)
RECURSIVE collapse_ws(_)
collapse_ws(s) ==
    IF s = <<>> THEN <<>>
    ELSE IF IsSpace(Head(s)) THEN <<" ">> \o collapse_ws(lstrip(s))
    ELSE <<Head(s)>> \o collapse_ws(Tail(s))

\* re.sub(r"\s+", " ", line).strip()
normalize(line) == strip(collapse_ws(line))

\* s.startswith(p)
startswith(s, p) == Len(p) <= Len(s) /\ SubSeq(s, 1, Len(p)) = p

\* The number of characters of a token sequence: len(str).
RECURSIVE strlen(_)
strlen(s) == IF s = <<>> THEN 0 ELSE Len(Head(s)) + strlen(Tail(s))


(***************************************************************************)
(* loader_pdf.py: page cleaning                                            *)
(***************************************************************************)

\* Tokens with which a line of the `common` catalog starts (the patterns
\* anchored with ^) and tokens matched anywhere in the line.
CommonPrefixTokens ==
    {"Page 1 of 2", "Revision date", "Date of print", "SAFETY DATA SHEET",
     "Document number"}

CommonAnywhereTokens == {"according to Regulation"}

\* any(re.search(pat, s, re.IGNORECASE) for pat in common)
matches_common(s) ==
    s # <<>> /\ (Head(s) \in CommonPrefixTokens
                 \/ \E i \in 1..Len(s) : s[i] \in CommonAnywhereTokens)

\* The (page, line) places of a page list: for p in pages, for line in
\* p.splitlines().
line_places(pgs) ==
    UNION {{<<i, j>> : j \in 1..Len(splitlines(pgs[i]))} : i \in 1..Len(pgs)}

\* freq: normalized non-empty line -> number of occurrences on all pages.
freq_keys(pgs) ==
    {normalize(splitlines(pgs[pl[1]])[pl[2]]) : pl \in line_places(pgs)} \ {<<>>}

freq(pgs, ln) ==
    Cardinality({pl \in line_places(pgs) :
                    normalize(splitlines(pgs[pl[1]])[pl[2]]) = ln})

\* cutoff = max(2, int(len(pages) * threshold)); the threshold is given in
\* tenths (6 for 0.6).  int(n * 0.6) = (n * 6) \div 10 and
\* int(n * 0.7) = (n * 7) \div 10 in floating point for every n < 90.
cutoff(n, th) == Max(2, (n * th) \div 10)

\* _find_repeated_lines with a count strictly above the cutoff.
_find_repeated_lines_strict(pgs, th) ==
    IF pgs = <<>> THEN {}
    ELSE {ln \in freq_keys(pgs) : freq(pgs, ln) > cutoff(Len(pgs), th)}
         \cup {ln \in freq_keys(pgs) : matches_common(ln)}

_find_repeated_lines(pgs, th) ==
    IF pgs = <<>> THEN {}
    ELSE {ln \in freq_keys(pgs) : freq(pgs, ln) >= cutoff(Len(pgs), th)}
         \cup {ln \in freq_keys(pgs) : matches_common(ln)}

_strip_repeated_lines(pgs, repeated) ==
    LET kept(line) == normalize(line) # <<>> /\ normalize(line) \notin repeated
        cleaned_pages == [i \in 1..Len(pgs) |->
                             join(<<"\n">>, SelectSeq(splitlines(pgs[i]), kept))]
    IN  join(<<"\n">>, cleaned_pages)

\* The threshold _read_pdf_text_clean passes: threshold=0.6.
PdfThreshold == 6

_read_pdf_text_clean(pgs) ==
    IF pgs = <<>> THEN <<>>
    ELSE strip(_strip_repeated_lines(pgs, _find_repeated_lines(pgs, PdfThreshold)))

(***************************************************************************)
(* loader.py: page splitting and header/footer removal                     *)
(***************************************************************************)

\* Tokens matched by Page\s+\d+\s+of\s+\d+.
PageFooterTokens == {"Page 1 of 2"}

\* re.split(r"\f|\n\s*Page\s+\d+\s+of\s+\d+", raw_text); cur is the page
\* being collected.
RECURSIVE split_pages_from(_, _)
split_pages_from(s, cur) ==
    IF s = <<>> THEN <<cur>>
    ELSE IF Head(s) = "\f" THEN <<cur>> \o split_pages_from(Tail(s), <<>>)
    ELSE IF /\ Head(s) = "\n"
            /\ lstrip(Tail(s)) # <<>>
            /\ Head(lstrip(Tail(s))) \in PageFooterTokens
         THEN <<cur>> \o split_pages_from(Tail(lstrip(Tail(s))), <<>>)
    ELSE split_pages_from(Tail(s), Append(cur, Head(s)))

split_pages(raw_text) == split_pages_from(raw_text, <<>>)

\* Lines shorter than this many characters are not counted.
MinCountedLineLen == 5

\* The ratio of identify_repeated_headers_footers, in tenths: 0.7.
TxtThreshold == 7

\* The keys of the returned dict: the stripped lines of at least 5
\* characters whose count reaches max(2, int(len(pages) * 0.7)).
identify_repeated_headers_footers(pgs) ==
    LET counted(pl) == strip(splitlines(pgs[pl[1]])[pl[2]])
        keys == {counted(pl) : pl \in line_places(pgs)}
        line_frequency(ln) ==
            Cardinality({pl \in line_places(pgs) : counted(pl) = ln})
    IN  {ln \in keys : /\ strlen(ln) >= MinCountedLineLen
                       /\ line_frequency(ln) >= cutoff(Len(pgs), TxtThreshold)}

remove_headers_footers(pgs, repeated_lines) ==
    LET kept(ln) == strip(ln) \notin repeated_lines
        clean_pages == [i \in 1..Len(pgs) |->
                           join(<<"\n">>, SelectSeq(splitlines(pgs[i]), kept))]
    IN  join(<<"\n">>, clean_pages)

\* load_sds_documents, step 1: the cleaned text of one raw text file.
txt_clean_text(raw_text) ==
    LET pgs == split_pages(raw_text)
    IN  remove_headers_footers(pgs, identify_repeated_headers_footers(pgs))

(***************************************************************************)
(* loader_pdf.py: the Section 1 block and the product name                 *)
(***************************************************************************)

\* Punctuation tokens; every token that is neither whitespace nor
\* punctuation starts and ends with a word character (\w).
Punctuation == {":"}

IsWord(c) == c \notin Whitespace \cup Punctuation

\* \b between token i-1 and token i of s.
word_boundary(s, i) ==
    LET before == i > 1 /\ i - 1 <= Len(s) /\ IsWord(s[i - 1])
        after  == i >= 1 /\ i <= Len(s) /\ IsWord(s[i])
    IN  before # after

\* ^\s* ends before token i (re.MULTILINE): only whitespace stands between
\* some line start and token i.
after_line_start(s, i) ==
    \E p \in 1..i : /\ p = 1 \/ s[p - 1] = "\n"
                    /\ \A k \in p..(i - 1) : IsSpace(s[k])

\* Tokens matched by Section\s*0*1 and Section\s*0*2 (re.IGNORECASE).
Section1Tokens == {"Section 1"}

Section2Tokens == {"Section 2"}

\* The fallback window: full_text[:2500].
Section1FallbackChars == 2500

\* _SECTION1_BLOCK_PATTERNS[0] and [1] (the same pattern under (?i)):
\* from the first "Section 1" heading to the first line that starts with
\* "Section 2", or to the end of the text.  The patterns for the numeric
\* headings "1. Identification" and "1 IDENTIFICATION", and the numeric
\* "2." terminators, match no token of the texts modelled here.
_extract_section1_block(text) ==
    LET starts == {i \in 1..Len(text) :
                      /\ text[i] \in Section1Tokens
                      /\ after_line_start(text, i)
                      /\ word_boundary(text, i + 1)}
    IN  IF starts # {}
        THEN LET b == Min(starts)
                 stops == {i \in (b + 1)..Len(text) :
                              /\ text[i] \in Section2Tokens
                              /\ after_line_start(text, i)
                              /\ word_boundary(text, i + 1)}
                 e == IF stops = {} THEN Len(text) + 1 ELSE Min(stops)
             IN  strip(SubSeq(text, b, e - 1))
        ELSE LET fits == {n \in 0..Len(text) :
                             strlen(SubSeq(text, 1, n)) <= Section1FallbackChars}
             IN  SubSeq(text, 1, CHOOSE n \in fits : \A m \in fits : m <= n)

\* Labels are token sequences, words separated by single spaces (the lines
\* they are compared with are whitespace-collapsed).  Every comparison with
\* a label ignores case, so a word token stands for all its casings.
_NAME_LABELS ==
    << <<"Product", " ", "Name">>, <<"Product">>, <<"Trade", " ", "Name">>,
       <<"Product", " ", "Identifier">>, <<"Chemical", " ", "Name">>,
       <<"Material", " ", "Name">>, <<"Substance", " ", "Name">>, <<"Name">> >>

_IGNORE_LABELS ==
    << <<"Product", " ", "Use">>, <<"Intended", " ", "Use">>,
       <<"Recommended", " ", "Use">>, <<"Supplier">>, <<"Manufacturer">>,
       <<"Company">>, <<"Emergency">>, <<"Address">>, <<"Phone">> >>

_is_ignored_label(label) ==
    \E k \in 1..Len(_IGNORE_LABELS) : startswith(strip(label), _IGNORE_LABELS[k])

\* any(re.fullmatch(lab, s, flags=re.IGNORECASE) for lab in _NAME_LABELS)
is_name_label(s) == \E k \in 1..Len(_NAME_LABELS) : s = _NAME_LABELS[k]

\* Tokens matched by SDS\s*No\.? and CAS\s*No\.?
NoiseTokens == {"SDS No.", "CAS No."}

_clean_value(val) ==
    LET v == normalize(val)
        noisy == {i \in 1..Len(v) : v[i] \in NoiseTokens}
    IN  IF noisy = {} THEN v ELSE strip(SubSeq(v, 1, Min(noisy) - 1))

\* re.match(r"(?i)\b(use|intended)\b", val)
UseTokens == {"Use", "Intended"}

starts_with_use(val) ==
    val # <<>> /\ Head(val) \in UseTokens /\ word_boundary(val, 2)

UNKNOWN == <<"UNKNOWN">>

\* The lines of the window: whitespace-collapsed, blank lines dropped.
window_lines(s1) ==
    LET nonblank(ln) == strip(ln) # <<>>
        kept == SelectSeq(splitlines(s1), nonblank)
    IN  [i \in 1..Len(kept) |-> normalize(kept[i])]

\* The first line at or after j that is not blank (the while loop).
next_non_empty(lines, j) ==
    LET rest == {k \in j..Len(lines) : strip(lines[k]) # <<>>}
    IN  IF rest = {} THEN Len(lines) + 1 ELSE Min(rest)

\* The value line i yields under the label:value mode for label lab, or
\* None.
colon_value(ln, lab) ==
    IF ":" \notin Range(ln) THEN None
    ELSE LET c     == Min({k \in 1..Len(ln) : ln[k] = ":"})
             left  == strip(SubSeq(ln, 1, c - 1))
             val   == _clean_value(strip(SubSeq(ln, c + 1, Len(ln))))
         IN  IF left = lab /\ ~starts_with_use(val) /\ val # <<>> THEN val ELSE None

\* The value the label-then-next-line mode yields at line i for label lab.
next_line_value(lines, i, lab) ==
    IF lines[i] = lab /\ i + 1 <= Len(lines)
       /\ ~is_name_label(_clean_value(lines[i + 1]))
       /\ ~_is_ignored_label(_clean_value(lines[i + 1]))
    THEN _clean_value(lines[i + 1]) ELSE None

\* extract_product_name scanning label by label in the priority order of
\* _NAME_LABELS, each label over all the lines from line i on.
scan_by_priority(lines, i) ==
    LET found(k) == {j \in i..Len(lines) :
                        \/ colon_value(lines[j], _NAME_LABELS[k]) # None
                        \/ next_line_value(lines, j, _NAME_LABELS[k]) # None}
        labs == {k \in 1..Len(_NAME_LABELS) : found(k) # {}}
    IN  IF labs = {} THEN UNKNOWN
        ELSE LET k == Min(labs)
                 j == Min(found(k))
             IN  IF colon_value(lines[j], _NAME_LABELS[k]) # None
                 THEN colon_value(lines[j], _NAME_LABELS[k])
                 ELSE next_line_value(lines, j, _NAME_LABELS[k])

\* The for loop of extract_product_name from line i on.
RECURSIVE scan_lines(_, _)
scan_lines(lines, i) ==
    IF i > Len(lines) THEN UNKNOWN
    ELSE LET ln == lines[i]
         IN  IF ":" \in Range(ln)
             THEN LET c     == Min({k \in 1..Len(ln) : ln[k] = ":"})
                      left  == strip(SubSeq(ln, 1, c - 1))
                      right == strip(SubSeq(ln, c + 1, Len(ln)))
                      val   == _clean_value(right)
                  IN  IF _is_ignored_label(left) THEN scan_lines(lines, i + 1)
                      ELSE IF /\ is_name_label(left)
                              /\ ~starts_with_use(val)
                              /\ val # <<>>
                           THEN val
                      ELSE scan_lines(lines, i + 1)
             ELSE LET j   == next_non_empty(lines, i + 1)
                      val == _clean_value(lines[j])
                  IN  IF /\ is_name_label(ln)
                         /\ ~_is_ignored_label(ln)
                         /\ j <= Len(lines)
                         /\ ~is_name_label(val)
                         /\ ~_is_ignored_label(val)
                      THEN val
                      ELSE scan_lines(lines, i + 1)

extract_product_name(text) ==
    scan_lines(window_lines(_extract_section1_block(text)), 1)

(***************************************************************************)
(* loader_pdf.py: section splitting                                        *)
(***************************************************************************)

\* Tokens matched by (?:Section|SECTION|Sec|SEC)\s*0*\d+.
SectionNumberTokens == {"Section 1", "Section 2", "Section 7", "Section 8"}

\* Tokens matched by [:\.\-–].
DelimiterTokens == {":"}

\* The first alternative of _SECTION_SPLIT_LOOKAHEAD at token i: "Section 7"
\* followed by a delimiter or by whitespace.  The numeric alternatives
\* ("1. IDENTIFICATION", "1 IDENTIFICATION") match no token of the texts
\* modelled here; "7.1" is matched by none of the three.
heading_at(s, i) ==
    /\ i + 1 <= Len(s)
    /\ s[i] \in SectionNumberTokens
    /\ s[i + 1] \in DelimiterTokens \/ IsSpace(s[i + 1])

\* The positions p (before token p) at which the lookahead (?=^\s*heading)
\* matches: p is a line start and only whitespace stands before the heading.
split_points(s) ==
    {p \in 1..Len(s) :
        /\ p = 1 \/ s[p - 1] = "\n"
        /\ \E i \in p..Len(s) : /\ heading_at(s, i)
                                /\ \A k \in p..(i - 1) : IsSpace(s[k])}

\* _SECTION_SPLIT_LOOKAHEAD.split(full_text): the pieces between the split
\* points, the (possibly empty) piece before the first one included.
RECURSIVE cut_at(_, _, _)
cut_at(s, from, points) ==
    IF points = {} THEN <<SubSeq(s, from, Len(s))>>
    ELSE <<SubSeq(s, from, Min(points) - 1)>>
             \o cut_at(s, Min(points), points \ {Min(points)})

regex_split(s) == cut_at(s, 1, split_points(s))

\* splitter.split_text(text) of RecursiveCharacterTextSplitter(chunk_size=
\* 1200, chunk_overlap=200) for a text shorter than chunk_size, as every
\* text of this model is: the pieces are merged back into one chunk,
\* stripped; nothing for a blank text.
split_text(text) == IF strip(text) = <<>> THEN <<>> ELSE <<strip(text)>>

FULL == <<"FULL">>

\* first_line with the title whitespace-collapsed as well.
first_line_collapsed(part) == normalize(splitlines(part)[1])

\* part.splitlines()[0].strip()
first_line(part) == strip(splitlines(part)[1])

\* _split_into_sections dropping the piece before the first heading.
_split_into_sections_drop_preamble(text) ==
    LET parts    == Tail(regex_split(text))
        nonblank(part) == strip(part) # <<>>
        kept     == SelectSeq(parts, nonblank)
        fallback == split_text(text)
    IN  IF Len(parts) > 0
        THEN [i \in 1..Len(kept) |-> <<first_line(strip(kept[i])), strip(kept[i])>>]
        ELSE [i \in 1..Len(fallback) |-> <<FULL, fallback[i]>>]

\* _split_into_sections without the fallback for a text with no heading.
_split_into_sections_no_fallback(text) ==
    LET parts    == regex_split(text)
        nonblank(part) == strip(part) # <<>>
        kept     == SelectSeq(parts, nonblank)
    IN  IF Len(parts) > 1
        THEN [i \in 1..Len(kept) |-> <<first_line(strip(kept[i])), strip(kept[i])>>]
        ELSE <<>>

\* List[Tuple[str, str]]: <<title, text>> pairs.
_split_into_sections(text) ==
    LET parts    == regex_split(text)
        nonblank(part) == strip(part) # <<>>
        kept     == SelectSeq(parts, nonblank)
        fallback == split_text(text)
    IN  IF Len(parts) > 1
        THEN [i \in 1..Len(kept) |-> <<first_line(strip(kept[i])), strip(kept[i])>>]
        ELSE [i \in 1..Len(fallback) |-> <<FULL, fallback[i]>>]

PDF_DIR == "data/sds_pdf"

\* The Documents load_sds_documents appends for one file with cleaned text
\* `text` (the loop body from extract_product_name on).
pdf_documents(fname, text) ==
    LET sections == _split_into_sections(text)
    IN  [i \in 1..Len(sections) |->
            [page_content |-> sections[i][2],
             metadata |-> [source       |-> <<PDF_DIR, fname>>,
                           file_name    |-> fname,
                           product_name |-> extract_product_name(text),
                           section      |-> sections[i][1],
                           format       |-> "pdf"]]]

(***************************************************************************)
(* loader.py: apply_file_level_metadata                                    *)
(***************************************************************************)

\* Tokens matched by Section\s+\d+ (case-sensitive, whitespace required).
TxtSectionTokens == SectionNumberTokens

\* Tokens matched by [:.].
TxtDelimiterTokens == {":"}

\* re.split(r"(?=Section\s+\d+[:.])", raw_text): a split point before every
\* "Section N" directly followed by ":" or ".", wherever it stands.
txt_split_points(s) ==
    {p \in 1..Len(s) : /\ p + 1 <= Len(s)
                       /\ s[p] \in TxtSectionTokens
                       /\ s[p + 1] \in TxtDelimiterTokens}

\* loader.extract_product_name: the file name without "ESPL-" and ".txt",
\* up to the first "-".  File names are modelled whole, so the result is
\* looked up.
txt_product_name(file_path) ==
    CASE file_path = "ESPL-Aurion-En.txt" -> <<"Aurion">>
      [] file_path = "ESPL-Bolt-En.txt"   -> <<"Bolt">>
      [] OTHER                            -> <<file_path>>

apply_file_level_metadata(file_path, raw_text) ==
    LET sections == cut_at(raw_text, 1, txt_split_points(raw_text))
        nonblank(sec) == strip(sec) # <<>>
        kept == SelectSeq(sections, nonblank)
        section_title(sec_clean) ==
            IF 1 \in txt_split_points(sec_clean)
            THEN SubSeq(sec_clean, 1, 2) ELSE UNKNOWN
    IN  [i \in 1..Len(kept) |->
            [page_content |-> strip(kept[i]),
             metadata |-> [source       |-> file_path,
                           product_name |-> txt_product_name(file_path),
                           section      |-> section_title(strip(kept[i]))]]]

(***************************************************************************)
(* load_sds_documents (loader_pdf.py and loader.py)                        *)
(***************************************************************************)

\* The file names of the model in the order sorted() gives them (by code
\* point: upper case before lower case).
FileNameOrder == <<"B.PDF", "ESPL-Aurion-En.txt", "ESPL-Bolt-En.txt", "a.pdf">>

\* sorted(os.listdir(pdf_dir))
sorted(names) ==
    LET listed(n) == n \in Range(names) IN SelectSeq(FileNameOrder, listed)

\* fname.lower().endswith(".pdf")
is_pdf(fname) == fname \in {"a.pdf", "B.PDF"}

\* file_name.endswith(".txt")
is_txt(fname) == fname \in {"ESPL-Aurion-En.txt", "ESPL-Bolt-En.txt"}

\* The loop of loader_pdf.load_sds_documents over the names left.  A file
\* fitz cannot open makes _read_pdf_pages raise; nothing catches it, the
\* call ends with the exception and returns no documents.
RECURSIVE pdf_loop(_, _, _)
pdf_loop(names, dir, docs) ==
    IF names = <<>> THEN [raised |-> FALSE, documents |-> docs]
    ELSE LET fname == Head(names)
             text  == _read_pdf_text_clean(dir[fname].pages)
         IN  IF ~is_pdf(fname) THEN pdf_loop(Tail(names), dir, docs)
             ELSE IF ~dir[fname].readable
                  THEN [raised |-> TRUE, documents |-> <<>>]
             ELSE IF text = <<>> THEN pdf_loop(Tail(names), dir, docs)
             ELSE pdf_loop(Tail(names), dir, docs \o pdf_documents(fname, text))

\* loader_pdf.load_sds_documents; listing is what os.listdir returns.
load_sds_documents(listing, dir) == pdf_loop(sorted(listing), dir, <<>>)

\* The loop of loader.load_sds_documents: the names in listing order; open()
\* raises for a file that cannot be read (errors="ignore" covers only
\* undecodable bytes).
RECURSIVE txt_loop(_, _, _)
txt_loop(names, dir, docs) ==
    IF names = <<>> THEN [raised |-> FALSE, documents |-> docs]
    ELSE LET file_name == Head(names)
             clean_text == txt_clean_text(dir[file_name].raw_text)
         IN  IF ~is_txt(file_name) THEN txt_loop(Tail(names), dir, docs)
             ELSE IF ~dir[file_name].readable
                  THEN [raised |-> TRUE, documents |-> <<>>]
             ELSE txt_loop(Tail(names), dir,
                           docs \o apply_file_level_metadata(file_name, clean_text))

txt_load_sds_documents(listing, dir) == txt_loop(listing, dir, <<>>)

\* The orders in which os.listdir may enumerate a directory.
listings(dir) ==
    {l \in [1..Cardinality(DOMAIN dir) -> DOMAIN dir] : Range(l) = DOMAIN dir}

(***************************************************************************)
(* main.py: product hints and query_sds; section_picker.py                 *)
(***************************************************************************)

\* Two entries of PRODUCT_SYNONYMS, in the order of the dict.
PRODUCT_SYNONYMS ==
    << [product  |-> <<"India", " ", "Ink", " ", "Control">>,
        synonyms |-> << <<"India", " ", "Ink">>,
                        <<"Ink", " ", "Control", " ", "Sample">> >>],
       [product  |-> <<"FLEXGRIT">>,
        synonyms |-> << <<"FLEXGRIT">> >>] >>

\* phrase.lower() in query.lower()
contains(query, phrase) ==
    \E i \in 1..Len(query) :
        /\ i + Len(phrase) - 1 <= Len(query)
        /\ SubSeq(query, i, i + Len(phrase) - 1) = phrase

\* The first product of the table that the query names, or None.
extract_product_hint(query) ==
    LET hit(e) == \/ contains(query, e.product)
                  \/ \E k \in 1..Len(e.synonyms) : contains(query, e.synonyms[k])
        hits == SelectSeq(PRODUCT_SYNONYMS, hit)
    IN  IF hits = <<>> THEN None ELSE hits[1].product

\* extract_product_hint_llm: the stripped content of the reply, or None
\* when the call raised (reply = None).
extract_product_hint_llm(reply) == IF reply = None THEN None ELSE strip(reply)

\* bool(x) of an Optional[str]
truthy(x) == x # None /\ x # <<>>

\* query_sds, lines 90-96: the hint after both passes.
hint_after_passes(query, reply) ==
    LET first == extract_product_hint(query)
        llm   == extract_product_hint_llm(reply)
    IN  IF truthy(first) THEN first
        ELSE IF truthy(llm) /\ llm = <<"NONE">> THEN None
        ELSE llm

\* k of similarity_search and of the retriever.
K == 5

\* The documents of the store that pass a product_name filter (None: all).
matching(store, flt) ==
    {i \in 1..Len(store) : flt = None \/ store[i].metadata.product_name = flt}

\* What a similarity search may return: the (at most k) matching documents
\* in any order of similarity.
search_results(store, flt) ==
    LET m == matching(store, flt)
        n == IF Cardinality(m) < K THEN Cardinality(m) ELSE K
    IN  {[j \in 1..n |-> store[o[j]]] :
            o \in {f \in [1..n -> m] : \A a, b \in 1..n : f[a] = f[b] => a = b}}

\* choose_relevant_section: resp.content.strip()
choose_relevant_section(reply) == strip(reply)

NOT_FOUND == <<"ANSWER NOT FOUND IN SDS">>

\* respond with the fallback answering with the picker's own text when no
\* candidate carries the section it named.
respond_with_reply(cands, sec) ==
    LET hits == {i \in 1..Len(cands) : cands[i].metadata.section = sec}
    IN  IF cands = <<>> THEN [answer |-> NOT_FOUND, source |-> None]
        ELSE IF hits # {}
             THEN [answer |-> cands[Min(hits)].page_content,
                   source |-> cands[Min(hits)].metadata]
        ELSE [answer |-> sec, source |-> cands[1].metadata]

\* query_sds from line 114 on: the response for the candidates and the
\* section the picker returned.
respond(cands, sec) ==
    LET hits == {i \in 1..Len(cands) : cands[i].metadata.section = sec}
    IN  IF cands = <<>> THEN [answer |-> NOT_FOUND, source |-> None]
        ELSE IF hits # {}
             THEN [answer |-> cands[Min(hits)].page_content,
                   source |-> cands[Min(hits)].metadata]
        ELSE [answer |-> cands[1].page_content, source |-> cands[1].metadata]

(***************************************************************************)
(* Bounds and input domains                                                *)
(***************************************************************************)

MaxTextLen == 5       \* tokens of a text handed to the section splitters
MaxPages == 10        \* pages of a document handed to the cleaning step
MaxWindowLines == 3   \* lines of a text handed to extract_product_name
MaxRuns == 2          \* load_sds_documents calls on one directory

\* A token sequence is the tokenization of the text it spells: a "Section
\* N" token is not directly followed by a token that starts with a digit
\* (the digits would belong to the section number).
DigitTokens == {"7.1"}

tokenized(s) ==
    \A i \in 1..(Len(s) - 1) :
        ~(s[i] \in SectionNumberTokens /\ s[i + 1] \in DigitTokens)

SplitAlphabet == {"Section 7", "7.1", "x", ":", " ", "\n"}

SplitTexts == {t \in SeqsUpTo(SplitAlphabet, MaxTextLen) : tokenized(t)}

\* The texts _read_pdf_text_clean can return and load_sds_documents goes on
\* with: not empty, stripped, without blank lines.
is_clean_pdf_text(t) == t # <<>> /\ t = strip(_strip_repeated_lines(<<t>>, {}))

\* The pages a document is made of in the cleaning model: a company line
\* with a page footer, and a short body line.
PageChoices ==
    { <<"Acme Corp", "\n", "Page 1 of 2">>, <<"x">> }

PageLists == SeqsUpTo(PageChoices, MaxPages)

\* The thresholds in use, in tenths: 0.6 (loader_pdf.py) and 0.7 (loader.py).
Thresholds == {PdfThreshold, TxtThreshold}

NameLines ==
    { <<"Section 1", ":", " ", "Identification">>,
      <<"Section 2", ":", " ", "Hazards">>,
      <<"Product", " ", "Name", ":", " ", "Acme">>,
      <<"Name", ":", " ", "Bolt">>,
      <<"Name">>,
      <<"Acme", " ", "500">>,
      <<"Supplier", ":", " ", "Bolt">>,
      <<"Supplier">>,
      <<"Product", ":", " ", "Use", ":", " ", "Acme">>,
      <<"SDS No.", " ", "12">>,
      <<"Product", " ", "Name", ":", " ", "SDS No.", " ", "12">>,
      <<"Product", ":", " ", "UNKNOWN">> }

NameTexts ==
    {join(<<"\n">>, ls) : ls \in SeqsUpTo(NameLines, MaxWindowLines)}

\* File contents.  A PDF is the page list fitz yields, or cannot be opened.
Unreadable == [readable |-> FALSE, pages |-> <<>>, raw_text |-> <<>>]

pdf_file(pgs) == [readable |-> TRUE, pages |-> pgs, raw_text |-> <<>>]

txt_file(raw) == [readable |-> TRUE, pages |-> <<>>, raw_text |-> raw]

HeadingsPdf ==
    pdf_file(<< <<"Section 1", ":", " ", "Identification", "\n",
                  "Product", " ", "Name", ":", " ", "Acme", "\n",
                  "Section 7", ":", " ", "Handling", "\n",
                  "7.1", " ", "Precautions">> >>)

PlainPdf == pdf_file(<< <<"Acme", " ", "500", "\n", "x">> >>)

HeaderPdf ==
    pdf_file(<< <<"Acme Corp", "\n", "Section 7", ":", " ", "x">>,
                <<"Acme Corp", "\n", "y">> >>)

PdfContents ==
    { Unreadable,
      pdf_file(<<>>),
      pdf_file(<< <<" ", "\n">> >>),
      pdf_file(<< <<"SAFETY DATA SHEET">>, <<"Page 1 of 2">> >>),
      HeadingsPdf, PlainPdf, HeaderPdf }

TxtContents ==
    { Unreadable,
      txt_file(<<>>),
      txt_file(<<" ", "\n">>),
      txt_file(<<"Acme Corp", "\f", "Acme Corp">>),
      txt_file(<<"Section 1", ":", " ", "x", "\n", "Section 2", ":", " ", "y">>),
      txt_file(<<"x", " ", "y">>),
      txt_file(<<"Acme Corp", "\n", "Section 1", ":", "x", "\f",
                 "Acme Corp", "\n", "y">>) }

PdfDirs ==
    {[n \in {"a.pdf", "B.PDF"} |-> IF n = "a.pdf" THEN a ELSE b] :
     a \in PdfContents, b \in PdfContents}

TxtDirs ==
    {[n \in {"ESPL-Aurion-En.txt", "ESPL-Bolt-En.txt"} |->
         IF n = "ESPL-Aurion-En.txt" THEN a ELSE b] :
     a \in TxtContents, b \in TxtContents}

\* main.py lines 38-44: the vector store holds what load_sds_documents
\* returned at start-up.
\* The stores are those of four directories: nothing but empty files;
\* a file with headings and one without; two files without headings; a
\* file with a repeated header and one with headings.
StoreDirs ==
    {d \in PdfDirs :
        <<d["a.pdf"], d["B.PDF"]>> \in
            { <<pdf_file(<<>>), pdf_file(<<>>)>>, <<HeadingsPdf, PlainPdf>>,
              <<PlainPdf, PlainPdf>>, <<HeaderPdf, HeadingsPdf>> }}

Stores ==
    {load_sds_documents(CHOOSE l \in listings(d) : TRUE, d).documents :
        d \in StoreDirs}

Questions ==
    { <<"storage", " ", "of", " ", "India", " ", "Ink">>,
      <<"FLEXGRIT", " ", "first", " ", "aid">>,
      <<"storage", " ", "of", " ", "Acme">>,
      <<"first", " ", "aid">> }

\* Replies of the product-hint model (None: the call raised).
HintReplies ==
    { None, <<>>, <<"NONE">>, <<"UNKNOWN">>, <<"Acme">>, <<" ", "Acme", "\n">> }

\* Replies of the section picker: a heading offered, "NONE", or other text.
PickReplies(cands) ==
    {cands[i].metadata.section : i \in 1..Len(cands)}
    \cup {<<"NONE">>, <<"Store", " ", "in", " ", "a", " ", "cool", " ", "place">>,
          <<" ", "Section 7", ":", " ", "Handling", "\n">>}

(***************************************************************************)
(* Specifications.  Each one exercises one part of the program; the        *)
(* variables a part does not use keep the value None.                      *)
(***************************************************************************)

IdleLoad == files = None /\ returned = <<>>

IdleQuery ==
    /\ vectorstore = <<>>
    /\ question = None
    /\ product_hint = None
    /\ search_filter = None
    /\ candidates = <<>>
    /\ section = None
    /\ response = None

IdleText ==
    /\ pages = <<>>
    /\ threshold = PdfThreshold
    /\ full_text = <<>>
    /\ documents = <<>>
    /\ product_name = None

loadVars == <<files, returned>>

queryVars ==
    <<vectorstore, question, product_hint, search_filter, candidates, section,
      response>>

---------------------------------------------------------------------------
\* Section splitting of one file's text: loader_pdf.py and loader.py.

InitSplit ==
    /\ pc = "start"
    /\ full_text \in SplitTexts
    /\ pages = <<>> /\ threshold = PdfThreshold
    /\ documents = <<>> /\ product_name = None
    /\ IdleLoad /\ IdleQuery

\* load_sds_documents (loader_pdf.py), one file whose cleaned text is
\* full_text: extract_product_name, _split_into_sections, the Documents.
SplitPdf ==
    /\ pc = "start"
    /\ is_clean_pdf_text(full_text)
    /\ pc' = "pdf"
    /\ product_name' = extract_product_name(full_text)
    /\ documents' = pdf_documents("a.pdf", full_text)
    /\ UNCHANGED <<pages, threshold, full_text, loadVars, queryVars>>

\* apply_file_level_metadata (loader.py) on the text full_text.
SplitTxt ==
    /\ pc = "start"
    /\ pc' = "txt"
    /\ documents' = apply_file_level_metadata("ESPL-Aurion-En.txt", full_text)
    /\ UNCHANGED <<pages, threshold, full_text, product_name, loadVars, queryVars>>

NextSplit == SplitPdf \/ SplitTxt

SpecSplit == InitSplit /\ [][NextSplit]_vars

---------------------------------------------------------------------------
\* The cleaning step on one document's pages.

InitClean ==
    /\ pc = "start"
    /\ pages \in PageLists
    /\ threshold \in Thresholds
    /\ full_text = <<>> /\ documents = <<>> /\ product_name = None
    /\ IdleLoad /\ IdleQuery

\* _strip_repeated_lines(pages, _find_repeated_lines(pages, threshold))
StripRepeated ==
    /\ pc = "start"
    /\ pc' = "strip"
    /\ full_text' = _strip_repeated_lines(pages, _find_repeated_lines(pages, threshold))
    /\ UNCHANGED <<pages, threshold, documents, product_name, loadVars, queryVars>>

\* _read_pdf_text_clean: what load_sds_documents runs on a PDF.
ReadPdfTextClean ==
    /\ pc = "start"
    /\ pc' = "pdf_clean"
    /\ full_text' = _read_pdf_text_clean(pages)
    /\ UNCHANGED <<pages, threshold, documents, product_name, loadVars, queryVars>>

\* loader.py: remove_headers_footers(pages, identify_repeated_headers_footers(pages))
RemoveHeadersFooters ==
    /\ pc = "start"
    /\ pc' = "txt_clean"
    /\ full_text' = remove_headers_footers(pages, identify_repeated_headers_footers(pages))
    /\ UNCHANGED <<pages, threshold, documents, product_name, loadVars, queryVars>>

NextClean == StripRepeated \/ ReadPdfTextClean \/ RemoveHeadersFooters

SpecClean == InitClean /\ [][NextClean]_vars

---------------------------------------------------------------------------
\* extract_product_name on one text.

InitName ==
    /\ pc = "start"
    /\ full_text \in NameTexts
    /\ pages = <<>> /\ threshold = PdfThreshold
    /\ documents = <<>> /\ product_name = None
    /\ IdleLoad /\ IdleQuery

ExtractProductName ==
    /\ pc = "start"
    /\ pc' = "name"
    /\ product_name' = extract_product_name(full_text)
    /\ UNCHANGED <<pages, threshold, full_text, documents, loadVars, queryVars>>

NextName == ExtractProductName

SpecName == InitName /\ [][NextName]_vars

---------------------------------------------------------------------------
\* load_sds_documents over a directory, called up to MaxRuns times with
\* either loader.  Each loader skips the files of the other's extension.

InitLoad ==
    /\ pc = "start"
    /\ files \in PdfDirs \cup TxtDirs
    /\ returned = <<>>
    /\ IdleText /\ IdleQuery

\* One call of loader_pdf.load_sds_documents; os.listdir enumerates the
\* directory in any order.
LoadPdf ==
    /\ Len(returned) < MaxRuns
    /\ \E l \in listings(files) :
          LET r == load_sds_documents(l, files)
          IN  returned' = Append(returned, [loader    |-> "loader_pdf",
                                            listing   |-> l,
                                            raised    |-> r.raised,
                                            documents |-> r.documents])
    /\ pc' = "loaded"
    /\ UNCHANGED <<pages, threshold, full_text, documents, product_name, files,
                   queryVars>>

\* One call of loader.load_sds_documents.
LoadTxt ==
    /\ Len(returned) < MaxRuns
    /\ \E l \in listings(files) :
          LET r == txt_load_sds_documents(l, files)
          IN  returned' = Append(returned, [loader    |-> "loader",
                                            listing   |-> l,
                                            raised    |-> r.raised,
                                            documents |-> r.documents])
    /\ pc' = "loaded"
    /\ UNCHANGED <<pages, threshold, full_text, documents, product_name, files,
                   queryVars>>

NextLoad == LoadPdf \/ LoadTxt

SpecLoad == InitLoad /\ [][NextLoad]_vars

---------------------------------------------------------------------------
\* query_sds on a store built at start-up.

InitQuery ==
    /\ pc = "start"
    /\ vectorstore \in Stores
    /\ question = None /\ product_hint = None /\ search_filter = None
    /\ candidates = <<>> /\ section = None /\ response = None
    /\ IdleText /\ IdleLoad

\* The candidates of query_sds for a hint: the filtered search, the
\* unfiltered retriever when it finds nothing or when there is no hint.
candidate_lists(store, hint) ==
    IF truthy(hint)
    THEN IF matching(store, hint) # {} THEN search_results(store, hint)
         ELSE search_results(store, None)
    ELSE search_results(store, None)

\* One POST /query: the question, the reply of the product-hint model (used
\* only when the synonym table gives nothing), the search results and the
\* reply of the section picker are the inputs.
QuerySds ==
    \E q \in Questions, hint_reply \in HintReplies :
        LET hint == hint_after_passes(q, hint_reply)
        IN  \E cands \in candidate_lists(vectorstore, hint) :
            \E pick_reply \in PickReplies(cands) :
                /\ question' = q
                /\ product_hint' = hint
                /\ search_filter' = IF truthy(hint) THEN hint ELSE None
                /\ candidates' = cands
                /\ section' = IF cands = <<>> THEN None
                              ELSE choose_relevant_section(pick_reply)
                /\ response' = respond(cands, section')
                /\ pc' = "answered"
                /\ UNCHANGED <<pages, threshold, full_text, documents,
                               product_name, loadVars, vectorstore>>

NextQuery == QuerySds

SpecQuery == InitQuery /\ [][NextQuery]_vars

(***************************************************************************)
(* Properties                                                              *)
(***************************************************************************)

\* C1: after a query, the response is the sentinel answer with source None
\* exactly when there are no candidates; otherwise its answer is the
\* page_content of one of the candidates, which are documents of the store,
\* and its source is that same candidate's metadata.  The replies of the
\* two language models never become the answer.
C1_VerbatimAnswer ==
    pc = "answered" =>
        IF candidates = <<>>
        THEN response.answer = NOT_FOUND /\ response.source = None
        ELSE /\ response.answer # NOT_FOUND
             /\ \A i \in 1..Len(candidates) :
                    \E k \in 1..Len(vectorstore) : candidates[i] = vectorstore[k]
             /\ \E i \in 1..Len(candidates) :
                    /\ response.answer = candidates[i].page_content
                    /\ response.source = candidates[i].metadata

\* C1 witness: the picker replied with text that is no heading of any
\* candidate, and the answer is the top candidate's text.
C1_Witness ==
    /\ pc = "answered"
    /\ Len(candidates) >= 2
    /\ section = <<"Store", " ", "in", " ", "a", " ", "cool", " ", "place">>
    /\ response.answer = candidates[1].page_content
    /\ response.source = candidates[1].metadata

\* C7: the product_name filter of the similarity search is never the
\* sentinel "UNKNOWN".
C7_NeverFilterUnknown == search_filter # UNKNOWN

\* The headings _SECTION_SPLIT_LOOKAHEAD detects in a text: the heading
\* tokens that stand first on their line.
headings(text) ==
    {i \in 1..Len(text) : heading_at(text, i) /\ after_line_start(text, i)}

\* The text before the first heading contains a character to keep.
has_preamble(text) ==
    headings(text) # {} /\ strip(SubSeq(text, 1, Min(headings(text)) - 1)) # <<>>

\* A line of the text starts with a subsection number ("7.1 ...").
subsection_lines(text) ==
    {i \in 1..Len(text) : text[i] \in DigitTokens /\ after_line_start(text, i)}

page_contents(docs) == [i \in 1..Len(docs) |-> docs[i].page_content]

\* The texts cs are consecutive slices of text from position `from` on,
\* in order, with nothing but whitespace before, between and after them.
RECURSIVE slices_from(_, _, _)
slices_from(text, from, cs) ==
    LET rest == {k \in from..Len(text) : ~IsSpace(text[k])}
    IN  IF cs = <<>> THEN rest = {}
        ELSE /\ rest # {}
             /\ SubSeq(text, Min(rest), Min(rest) + Len(Head(cs)) - 1) = Head(cs)
             /\ slices_from(text, Min(rest) + Len(Head(cs)), Tail(cs))

\* C2 as stated: for a cleaned text with N >= 1 detected headings and no
\* subsection line, exactly N records, whose texts concatenated in order
\* are the text.
C2_ExactlyNLossless ==
    (pc = "pdf" /\ headings(full_text) # {} /\ subsection_lines(full_text) = {}) =>
        /\ Len(documents) = Cardinality(headings(full_text))
        /\ join(<<>>, page_contents(documents)) = full_text

\* C2 amended: for a cleaned text with N >= 1 detected headings there is
\* one record per heading, and one more for text before the first heading;
\* every record is stripped and not empty, every record but the one for
\* the text before the first heading starts with its heading; the records
\* are slices of the text in source order, disjoint, and only whitespace
\* lies between them.
C2_SlicesUpToWhitespace ==
    (pc = "pdf" /\ headings(full_text) # {}) =>
        LET cs  == page_contents(documents)
            pre == IF has_preamble(full_text) THEN 1 ELSE 0
        IN  /\ Len(cs) = Cardinality(headings(full_text)) + pre
            /\ \A i \in 1..Len(cs) : cs[i] # <<>> /\ cs[i] = strip(cs[i])
            /\ \A i \in (pre + 1)..Len(cs) : Head(cs[i]) \in SectionNumberTokens
            /\ slices_from(full_text, 1, cs)

\* C2 witness: a text with one heading and text before it has been split
\* into two records, which do not concatenate to the text.
C2_Witness ==
    /\ pc = "pdf"
    /\ Cardinality(headings(full_text)) = 1
    /\ has_preamble(full_text)
    /\ Len(documents) = 2
    /\ join(<<>>, page_contents(documents)) # full_text

\* C3 as stated: a "7.1" line inside "Section 7" yields a record for 7.1
\* whose parent section id is "7" and whose text is a strict part of the
\* Section 7 record's text.
C3_SubsectionRecord ==
    (/\ pc = "pdf"
     /\ \E h \in headings(full_text), j \in subsection_lines(full_text) :
            full_text[h] = "Section 7" /\ h < j) =>
        \E i, p \in 1..Len(documents) :
            /\ Head(documents[i].page_content) \in DigitTokens
            /\ Head(documents[p].page_content) = "Section 7"
            /\ "parent_section" \in DOMAIN documents[i].metadata
            /\ documents[i].metadata["parent_section"] = <<"7">>
            /\ Len(documents[i].page_content) < Len(documents[p].page_content)
            /\ contains(documents[p].page_content, documents[i].page_content)

\* C9 as stated: the section of every record, fallback and text-loader
\* records included, is a prefix of its page_content.
C9_SectionIsPrefix ==
    pc \in {"pdf", "txt"} =>
        \A i \in 1..Len(documents) :
            startswith(documents[i].page_content, documents[i].metadata.section)

\* C9 amended: a record loader_pdf cuts at detected headings (the record
\* for the text before the first heading included) has the stripped first
\* line of its text as section, a prefix of the text; without headings
\* its records carry "FULL".  A record of loader.py carries the "Section
\* N:" its text starts with, or "UNKNOWN" when it starts with none.
C9_SectionPrefixOrSentinel ==
    /\ pc = "pdf" =>
          \A i \in 1..Len(documents) :
              LET d == documents[i]
              IN  IF headings(full_text) = {} THEN d.metadata.section = FULL
                  ELSE /\ d.metadata.section # <<>>
                       /\ startswith(d.page_content, d.metadata.section)
                       /\ \/ Len(d.metadata.section) = Len(d.page_content)
                          \/ IsSpace(d.page_content[Len(d.metadata.section) + 1])
                       /\ "\n" \notin Range(d.metadata.section)
    /\ pc = "txt" =>
          \A i \in 1..Len(documents) :
              LET d == documents[i]
              IN  IF /\ Len(d.page_content) >= 2
                     /\ d.page_content[1] \in TxtSectionTokens
                     /\ d.page_content[2] \in TxtDelimiterTokens
                  THEN d.metadata.section = SubSeq(d.page_content, 1, 2)
                  ELSE d.metadata.section = UNKNOWN

\* C9 witness: two records cut at a heading, the first for the text before
\* it, each with a section that is a proper prefix of a longer text.
C9_Witness ==
    /\ pc = "pdf"
    /\ Len(documents) = 2
    /\ has_preamble(full_text)
    /\ Len(documents[2].metadata.section) < Len(documents[2].page_content)
    /\ startswith(documents[1].page_content, documents[1].metadata.section)

\* The records of one file in the documents a call returned.
records_of(run, name) ==
    {i \in 1..Len(run.documents) :
        IF run.loader = "loader_pdf"
        THEN run.documents[i].metadata.file_name = name
        ELSE run.documents[i].metadata.source = name}

\* The file holds at least one character.
non_empty_content(f) ==
    f.readable /\ (f.raw_text # <<>> \/ \E i \in 1..Len(f.pages) : f.pages[i] # <<>>)

\* The text left of a file after the cleaning step of the loader.
cleaned(run, f) ==
    IF run.loader = "loader_pdf" THEN _read_pdf_text_clean(f.pages)
    ELSE strip(txt_clean_text(f.raw_text))

handles(run, name) == IF run.loader = "loader_pdf" THEN is_pdf(name) ELSE is_txt(name)

\* C4 as stated: a call that returns has emitted at least one record for
\* every file of its extension with non-empty content.
C4_NonEmptyFileHasRecord ==
    \A r \in 1..Len(returned) : \A name \in DOMAIN files :
        (/\ ~returned[r].raised
         /\ handles(returned[r], name)
         /\ non_empty_content(files[name])) =>
            records_of(returned[r], name) # {}

\* C4 amended: a call that returns has emitted at least one record for a
\* file of its extension exactly when the file's text after the cleaning
\* step (boilerplate removed, stripped) is not empty; this includes the
\* texts in which no heading is found.
C4_CleanTextHasRecord ==
    \A r \in 1..Len(returned) : \A name \in DOMAIN files :
        (~returned[r].raised /\ handles(returned[r], name)) =>
            (records_of(returned[r], name) # {}
                <=> cleaned(returned[r], files[name]) # <<>>)

\* C4 witness: loader_pdf has returned a record for a file without any
\* heading and none for a file that holds only boilerplate lines.
C4_Witness ==
    \E r \in 1..Len(returned) :
        /\ returned[r].loader = "loader_pdf"
        /\ ~returned[r].raised
        /\ DOMAIN files = {"a.pdf", "B.PDF"}
        /\ files["a.pdf"] = PlainPdf
        /\ records_of(returned[r], "a.pdf") # {}
        /\ non_empty_content(files["B.PDF"])
        /\ records_of(returned[r], "B.PDF") = {}

\* C6 as stated: no call ends with an exception, and a call returns the
\* records of every file that can be read, whatever the other files are.
C6_FailureSkipsOnlyThatFile ==
    \A r \in 1..Len(returned) :
        /\ ~returned[r].raised
        /\ \A name \in DOMAIN files :
              (/\ handles(returned[r], name)
               /\ files[name].readable
               /\ cleaned(returned[r], files[name]) # <<>>) =>
                  records_of(returned[r], name) # {}

\* C8 as stated: two calls of the same loader that return, on the same
\* directory, return the same sequence of records, whatever the orders in
\* which the directory was listed.
C8_SameRecordsAnyListing ==
    \A r1, r2 \in 1..Len(returned) :
        (/\ returned[r1].loader = returned[r2].loader
         /\ ~returned[r1].raised /\ ~returned[r2].raised) =>
            returned[r1].documents = returned[r2].documents

\* The normalized lines of the text a cleaning step has put out.
output_lines == {normalize(ln) : ln \in Range(splitlines(full_text))}

\* A line counted on the pages that matches no catalog pattern is removed
\* when its count reaches max(2, floor(P * r)) and retained below it.
cutoff_rule(th) ==
    \A ln \in freq_keys(pages) :
        ~matches_common(ln) =>
            /\ freq(pages, ln) >= cutoff(Len(pages), th) => ln \notin output_lines
            /\ freq(pages, ln) < cutoff(Len(pages), th) => ln \in output_lines

accepted_value(lines, i) ==
    LET ln == lines[i]
    IN  IF ":" \in Range(ln)
        THEN LET c    == Min({k \in 1..Len(ln) : ln[k] = ":"})
                 left == strip(SubSeq(ln, 1, c - 1))
                 val  == _clean_value(strip(SubSeq(ln, c + 1, Len(ln))))
             IN  IF /\ ~_is_ignored_label(left)
                    /\ is_name_label(left)
                    /\ ~starts_with_use(val)
                    /\ val # <<>>
                 THEN val ELSE None
        ELSE IF /\ is_name_label(ln)
                /\ ~_is_ignored_label(ln)
                /\ i < Len(lines)
                /\ ~is_name_label(_clean_value(lines[i + 1]))
                /\ ~_is_ignored_label(_clean_value(lines[i + 1]))
             THEN _clean_value(lines[i + 1]) ELSE None

window == window_lines(_extract_section1_block(full_text))

accepted_lines == {i \in 1..Len(window) : accepted_value(window, i) # None}

looks_like_label(ln) ==
    \/ is_name_label(ln)
    \/ _is_ignored_label(ln)
    \/ /\ ":" \in Range(ln)
       /\ LET c    == Min({k \in 1..Len(ln) : ln[k] = ":"})
              left == strip(SubSeq(ln, 1, c - 1))
          IN  is_name_label(left) \/ _is_ignored_label(left)

\* The lines of the window accepted in the label-alone mode: a recognized
\* label alone on the line, the value taken from the next line.
label_alone_lines == {i \in accepted_lines : ":" \notin Range(window[i])}

\* C11: when extract_product_name returns the line after a label that
\* stands alone on its line, that next line does not look like a label:
\* it is no recognized label, no ignored label and no line of the form
\* "<recognized label>: <value>".
C11_NoLabelLineSwallowed ==
    (/\ pc = "name"
     /\ accepted_lines # {}
     /\ Min(accepted_lines) \in label_alone_lines) =>
        ~looks_like_label(window[Min(accepted_lines) + 1])

\* C12: extract_product_name never returns the empty string.
C12_NeverEmpty == pc = "name" => product_name # <<>>

=============================================================================
